---- MODULE Spec2Model ----
(***************************************************************************)
(* Restaurant POS backend: order placement, kitchen-ticket (KOT)           *)
(* generation, printer routing and status propagation.                     *)
(*                                                                         *)
(* The database tables are sets of rows.  A row written inside a           *)
(* transaction carries committed = FALSE until the transaction commits;    *)
(* ROLLBACK deletes the uncommitted rows of the transaction.  Statements   *)
(* issued through the pool (autocommit) see committed rows only.           *)
(*                                                                         *)
(* DECIMAL(10,2) columns are counted in cents and tax rate settings in     *)
(* hundredths of a percent.  The amounts the create-order handler computes *)
(* before it stores them are JavaScript numbers (doubles).                 *)
(***************************************************************************)
EXTENDS Integers, Sequences, FiniteSets, TLC

VARIABLES now, menu, settings, upd, printers, mappings, svc,
          orders, order_items, kots, kot_items, nextId, req, last

vars == <<now, menu, settings, upd, printers, mappings, svc,
          orders, order_items, kots, kot_items, nextId, req, last>>

dbvars == <<orders, order_items, kots, kot_items>>

(***************************************************************************)
(* Bounds of the model.                                                    *)
(***************************************************************************)
MaxReq == 2
MaxTime == 2
NumSuffix == 2
MaxQty == 2
MaxUpd == 2
MaxJobs == 2
MaxObjects == 3

Requests == 1..MaxReq
Updaters == 1..MaxUpd
Jobs == 1..MaxJobs
Times == 1..MaxTime
Suffixes == 0..(NumSuffix - 1)

(***************************************************************************)
(* Enumerated status sets.                                                 *)
(***************************************************************************)
OrderStatuses == {"Pending", "Confirmed", "Preparing", "Ready", "Served",
                  "Completed", "Cancelled"}
KotStatuses == {"Pending", "Printed", "Preparing", "Ready", "Served"}
KotItemStatuses == {"Pending", "Preparing", "Ready", "Served"}
OrderTypes == {"Dine-in", "Takeaway", "Delivery"}

(***************************************************************************)
(* Reference data inserted by the migration: categories and subcategories. *)
(***************************************************************************)
CategoryName(c) ==
  CASE c = 1 -> "Food"
    [] c = 2 -> "Drinks"
    [] OTHER -> "Games"

SubcategoryCategory(sc) ==
  IF sc \in 1..4 THEN 1 ELSE IF sc \in 5..7 THEN 2 ELSE 3

DefaultTaxRate == 850

(***************************************************************************)
(* JavaScript numbers.  Amounts are IEEE-754 doubles: a non-negative       *)
(* double whose ulp is at least 2^-FracBits is the natural number          *)
(* value * 2^FracBits, kept as a sequence of limbs of LimbBits bits, least *)
(* significant first and without leading zero limbs (<<>> is 0).  Every    *)
(* operation computes the exact result and rounds it to 53 significant     *)
(* bits, ties to even.  Amounts lie between 2^-17 and 2^20.                *)
(***************************************************************************)
LimbBits == 15
LimbBase == 2 ^ LimbBits
FracLimbs == 5
FracBits == FracLimbs * LimbBits
MantissaBits == 53

RECURSIVE Trim(_)
Trim(a) ==
  IF a = <<>> THEN <<>>
  ELSE IF a[Len(a)] = 0 THEN Trim(SubSeq(a, 1, Len(a) - 1)) ELSE a

RECURSIVE BigAddC(_, _, _)
BigAddC(a, b, c) ==
  IF a = <<>> /\ b = <<>> THEN (IF c = 0 THEN <<>> ELSE <<c>>)
  ELSE LET x == IF a = <<>> THEN 0 ELSE a[1]
           y == IF b = <<>> THEN 0 ELSE b[1]
           sum == x + y + c
       IN  <<sum % LimbBase>> \o
           BigAddC(IF a = <<>> THEN a ELSE Tail(a),
                   IF b = <<>> THEN b ELSE Tail(b), sum \div LimbBase)

BigAdd(a, b) == BigAddC(a, b, 0)

RECURSIVE BigMulSmallC(_, _, _)
BigMulSmallC(a, n, c) ==
  IF a = <<>> THEN (IF c = 0 THEN <<>> ELSE <<c>>)
  ELSE LET p == a[1] * n + c
       IN  <<p % LimbBase>> \o BigMulSmallC(Tail(a), n, p \div LimbBase)

\* a * n for 0 <= n < LimbBase
BigMulSmall(a, n) == Trim(BigMulSmallC(a, n, 0))

ShiftLimbs(a, k) == IF a = <<>> THEN <<>> ELSE [i \in 1..k |-> 0] \o a

DropLimbs(a, k) == IF Len(a) <= k THEN <<>> ELSE SubSeq(a, k + 1, Len(a))

RECURSIVE BigMul(_, _)
BigMul(a, b) ==
  IF b = <<>> THEN <<>>
  ELSE BigAdd(BigMulSmall(a, b[1]), ShiftLimbs(BigMul(a, Tail(b)), 1))

\* quotient and remainder of a by d, for 0 < d < LimbBase
RECURSIVE BigDivModC(_, _)
BigDivModC(a, d) ==
  IF a = <<>> THEN [q |-> <<>>, r |-> 0]
  ELSE LET hi == BigDivModC(Tail(a), d)
           cur == hi.r * LimbBase + a[1]
       IN  [q |-> <<cur \div d>> \o hi.q, r |-> cur % d]

BigDivMod(a, d) ==
  LET dm == BigDivModC(a, d) IN [q |-> Trim(dm.q), r |-> dm.r]

BigShl(a, k) ==
  ShiftLimbs(BigMulSmall(a, 2 ^ (k % LimbBits)), k \div LimbBits)

BigShr(a, k) ==
  BigDivMod(DropLimbs(a, k \div LimbBits), 2 ^ (k % LimbBits)).q

RECURSIVE SmallBitLen(_)
SmallBitLen(n) == IF n = 0 THEN 0 ELSE 1 + SmallBitLen(n \div 2)

BitLen(a) ==
  IF a = <<>> THEN 0
  ELSE LimbBits * (Len(a) - 1) + SmallBitLen(a[Len(a)])

RECURSIVE BigLess(_, _)
BigLess(a, b) ==
  IF Len(a) # Len(b) THEN Len(a) < Len(b)
  ELSE IF a = <<>> THEN FALSE
  ELSE IF a[Len(a)] # b[Len(b)] THEN a[Len(a)] < b[Len(b)]
  ELSE BigLess(Trim(SubSeq(a, 1, Len(a) - 1)), Trim(SubSeq(b, 1, Len(b) - 1)))

RECURSIVE BigOf(_)
BigOf(n) == IF n = 0 THEN <<>> ELSE <<n % LimbBase>> \o BigOf(n \div LimbBase)

RECURSIVE BigToInt(_)
BigToInt(a) == IF a = <<>> THEN 0 ELSE a[1] + LimbBase * BigToInt(Tail(a))

\* round to nearest, ties to even; inexact says that the exact value lies
\* strictly above n
RoundDouble(n, inexact) ==
  LET drop == BitLen(n) - MantissaBits IN
  IF drop <= 0 THEN n
  ELSE LET keep == BigShr(n, drop)
           below == BigShr(n, drop - 1)
           half == below[1] % 2 = 1
           rest == inexact \/ BigShl(below, drop - 1) # n
           up == half /\ (rest \/ keep[1] % 2 = 1)
       IN  BigShl(IF up THEN BigAdd(keep, <<1>>) ELSE keep, drop)

\* the double nearest to n / d (Number("1.10") is NumberOfRatio(110, 100))
NumberOfRatio(n, d) ==
  LET dm == BigDivMod(ShiftLimbs(BigOf(n), FracLimbs), d)
  IN  RoundDouble(dm.q, dm.r # 0)

\* a DECIMAL(10,2) column arrives as the string "d.cc"; the arithmetic
\* operators and parseFloat turn it into the nearest double
ToNumber(cents) == NumberOfRatio(cents, 100)

NumAdd(x, y) == RoundDouble(BigAdd(x, y), FALSE)

NumMulInt(x, n) == RoundDouble(BigMulSmall(x, n), FALSE)

NumMul(x, y) ==
  LET p == BigMul(x, y)
  IN  RoundDouble(DropLimbs(p, FracLimbs),
                  ShiftLimbs(DropLimbs(p, FracLimbs), FracLimbs) # p)

NumDivInt(x, d) ==
  LET dm == BigDivMod(x, d) IN RoundDouble(dm.q, dm.r # 0)

(***************************************************************************)
(* DECIMAL(10,2): a number bound to a statement is stored as its shortest  *)
(* decimal representation rounded half up to two decimals, in cents.  The  *)
(* shortest representation of x is at least k.kk5 exactly when x is at     *)
(* least the double nearest to k.kk5.                                      *)
(***************************************************************************)
FloorCents(x) == BigToInt(DropLimbs(BigMulSmall(x, 100), FracLimbs))

DecimalRound(x) ==
  LET k == FloorCents(x)
  IN  IF BigLess(x, NumberOfRatio(2 * k + 1, 200)) THEN k ELSE k + 1

(***************************************************************************)
(* Transactions.                                                           *)
(***************************************************************************)
Committed(T) == {x \in T : x.committed}

Commit(T, r) ==
  {IF x.by = r THEN [x EXCEPT !.committed = TRUE] ELSE x : x \in T}

RollbackKeepsRows(T, r) == Commit(T, r)

Rollback(T, r) == {x \in T : x.committed \/ x.by # r}

(***************************************************************************)
(* Request validation of POST /api/orders (express-validator chain).       *)
(***************************************************************************)
Validate(body) ==
  /\ body.order_type \in OrderTypes
  /\ Len(body.items) >= 1
  /\ \A i \in 1..Len(body.items) : body.items[i].quantity >= 1

(***************************************************************************)
(* The generated numbers: `ORD-${Date.now()}-${Math.floor(Math.random() *  *)
(* 1000)}` and the same with KOT-.  The text is determined by, and         *)
(* determines, the prefix, the clock value and the random suffix.          *)
(***************************************************************************)
OrderNumber(t, rnd) == <<"ORD", t, rnd>>

KotNumber(t, rnd) == <<"KOT", t, rnd>>

(***************************************************************************)
(* Pricing: the menu item lookup loop and the totals.                      *)
(***************************************************************************)
ItemFoundIgnoresAvailability(m, id) == id \in DOMAIN m

ItemFound(m, id) == id \in DOMAIN m /\ m[id].is_available

PricedLineUnitOnly(m, item) ==
  [menu_item_id |-> item.menu_item_id,
   quantity |-> item.quantity,
   unit_price |-> m[item.menu_item_id].price,
   total_price |-> ToNumber(m[item.menu_item_id].price)]

\* totalPrice = menuItem.price * item.quantity
PricedLine(m, item) ==
  [menu_item_id |-> item.menu_item_id,
   quantity |-> item.quantity,
   unit_price |-> m[item.menu_item_id].price,
   total_price |-> NumMulInt(ToNumber(m[item.menu_item_id].price),
                             item.quantity)]

\* subtotal += totalPrice, line by line from 0
RECURSIVE SumTotals(_)
SumTotals(lines) ==
  IF lines = <<>> THEN <<>>
  ELSE NumAdd(SumTotals(SubSeq(lines, 1, Len(lines) - 1)),
              lines[Len(lines)].total_price)

\* settings.tax_rate is the set of setting_value of the rows whose
\* setting_key is "tax_rate" (setting_key is UNIQUE: no row or one row), in
\* hundredths of a percent; parseFloat gives the nearest double.
TaxRate ==
  LET taxSettings == settings.tax_rate
  IN ToNumber(IF taxSettings # {}
              THEN CHOOSE v \in taxSettings : TRUE
              ELSE DefaultTaxRate)

\* (subtotal * taxRate) / 100
TaxAmount(subtotal, taxRate) == NumDivInt(NumMul(subtotal, taxRate), 100)

TotalAmount(subtotal, taxAmount) == NumAdd(subtotal, taxAmount)

(***************************************************************************)
(* Category classifier.                                                    *)
(***************************************************************************)
foodCategories == {"Food"}
drinkCategories == {"Drinks", "Beverages"}

ItemCategories(m, items) ==
  {CategoryName(SubcategoryCategory(m[id].subcategory_id)) :
     id \in {items[i].menu_item_id : i \in 1..Len(items)} \cap DOMAIN m}

CategoryTypeAny(categories) ==
  IF \E cat \in categories : cat \in foodCategories THEN "Food"
  ELSE IF \E cat \in categories : cat \in drinkCategories THEN "Beverages"
  ELSE "Mixed"

CategoryType(categories) ==
  IF \A cat \in categories : cat \in foodCategories THEN "Food"
  ELSE IF \A cat \in categories : cat \in drinkCategories THEN "Beverages"
  ELSE "Mixed"

(***************************************************************************)
(* Printer routing and dispatch (PrinterService.printKOT).                 *)
(***************************************************************************)
KotSubcategories(kotId) ==
  {menu[oi.menu_item_id].subcategory_id :
     oi \in {o \in Committed(order_items) :
               /\ o.menu_item_id \in DOMAIN menu
               /\ \E ki \in Committed(kot_items) :
                    ki.kot_id = kotId /\ ki.order_item_id = o.id}}

SelectableOnlineOnly(p) == printers[p].is_online

Selectable(p) == printers[p].is_active /\ printers[p].is_online

MappedPrinters(kotId) ==
  {p \in DOMAIN printers :
     /\ Selectable(p)
     /\ \E m \in mappings :
          /\ m.printer_id = p
          /\ m.subcategory_id \in KotSubcategories(kotId)}

KitchenPrinters ==
  {p \in DOMAIN printers : printers[p].type = "Kitchen" /\ Selectable(p)}

\* LIMIT 1 without ORDER BY: any of the matching rows may be returned.
PrinterChoices(kotId) ==
  IF MappedPrinters(kotId) # {} THEN MappedPrinters(kotId)
  ELSE KitchenPrinters

KotFound(kotId) ==
  \E k \in Committed(kots) :
    k.id = kotId /\ \E o \in Committed(orders) : o.id = k.order_id

PrintSucceedsSticky(kotId, connected) ==
  /\ KotFound(kotId) /\ PrinterChoices(kotId) # {}
  /\ connected \/ (last.op = "print" /\ last.id = kotId /\ last.code = 200)

\* The print succeeds when the KOT exists, a printer was selected and
\* isPrinterConnected() answered true and execute() did not throw.
PrintSucceeds(kotId, connected) ==
  KotFound(kotId) /\ PrinterChoices(kotId) # {} /\ connected

MarkPrinted(ks, kotId, t) ==
  {IF k.id = kotId /\ k.committed
   THEN [k EXCEPT !.status = "Printed", !.printed_at = t]
   ELSE k : k \in ks}

KotsAfterPrintAlways(ks, kotId, connected, t) == MarkPrinted(ks, kotId, t)

KotsAfterPrint(ks, kotId, connected, t) ==
  IF PrintSucceeds(kotId, connected) THEN MarkPrinted(ks, kotId, t) ELSE ks

(***************************************************************************)
(* POST /api/orders: the create-order handler, one action per awaited      *)
(* statement.  req[r] holds the handler's local variables.                 *)
(***************************************************************************)
IdleReq ==
  [pc |-> "idle", items |-> <<>>, orderNumber |-> <<>>, kotNumber |-> <<>>,
   orderItems |-> <<>>, snap |-> <<>>, subtotal |-> <<>>, taxAmount |-> <<>>,
   totalAmount |-> <<>>, categoryType |-> "Mixed", orderId |-> 0, kotId |-> 0,
   idx |-> 0, committed |-> FALSE, code |-> 0, responses |-> 0,
   conn |-> "none", releases |-> 0, printed |-> "none", thrown |-> "none",
   reply |-> <<>>]

\* A handler that ends: the response is sent, `finally` releases the
\* connection and the locals go out of scope (the request's input and what
\* the response carried are kept for reference).
Ended(l, code) ==
  [l EXCEPT !.pc = "done", !.code = code, !.responses = @ + 1,
            !.conn = "released", !.releases = @ + 1]

Failed(l, code, how) ==
  Ended([IdleReq EXCEPT !.items = l.items, !.committed = l.committed,
                        !.orderId = IF l.committed THEN l.orderId ELSE 0,
                        !.kotId = IF l.committed THEN l.kotId ELSE 0,
                        !.responses = l.responses, !.releases = l.releases,
                        !.thrown = how], code)

\* `await connection.rollback(); return res.status(code)...` and the catch
\* block: rollback, respond, release.
RollbackAndEnd(r, code, how) ==
  /\ orders' = Rollback(orders, r)
  /\ order_items' = Rollback(order_items, r)
  /\ kots' = Rollback(kots, r)
  /\ kot_items' = Rollback(kot_items, r)
  /\ req' = [req EXCEPT ![r] = Failed(@, code, how)]

CreateBegin(r, body) ==
  /\ req[r].pc = "idle"
  /\ IF ~Validate(body)
     THEN RollbackAndEnd(r, 400, "none")
     ELSE /\ \E rnd \in Suffixes :
               req' = [req EXCEPT ![r] =
                         [@ EXCEPT !.pc = "lookup", !.conn = "held",
                                   !.items = body.items,
                                   !.orderNumber = OrderNumber(now, rnd)]]
          /\ UNCHANGED dbvars
  /\ UNCHANGED <<now, menu, settings, upd, printers, mappings, svc, nextId, last>>

\* The lookup loop, the tax rate read and the totals.  The reads of one
\* transaction see one snapshot of the committed data (the first read
\* establishes it), kept in snap.
CreateLookup(r) ==
  /\ req[r].pc = "lookup"
  /\ LET items == req[r].items
         found == \A i \in 1..Len(items) : ItemFound(menu, items[i].menu_item_id)
     IN IF ~found
        THEN RollbackAndEnd(r, 400, "none")
        ELSE LET orderItems == [i \in 1..Len(items) |-> PricedLine(menu, items[i])]
                 subtotal == SumTotals(orderItems)
                 taxAmount == TaxAmount(subtotal, TaxRate)
             IN /\ req' = [req EXCEPT ![r] =
                             [@ EXCEPT !.pc = "insOrder", !.snap = menu,
                                       !.orderItems = orderItems,
                                       !.subtotal = subtotal,
                                       !.taxAmount = taxAmount,
                                       !.totalAmount = TotalAmount(subtotal, taxAmount)]]
                /\ UNCHANGED dbvars
  /\ UNCHANGED <<now, menu, settings, upd, printers, mappings, svc, nextId, last>>

\* UNIQUE(order_number) / UNIQUE(kot_number): an INSERT whose number equals an
\* uncommitted row of another transaction waits for that transaction; one
\* that equals a visible row fails with a duplicate-key error.
UniqueWaits(T, r, col, v) == \E x \in T : x[col] = v /\ ~x.committed /\ x.by # r

UniqueFails(T, r, col, v) == \E x \in T : x[col] = v /\ (x.committed \/ x.by = r)

CreateInsertOrder(r) ==
  LET l == req[r] IN
  /\ l.pc = "insOrder"
  /\ ~UniqueWaits(orders, r, "order_number", l.orderNumber)
  /\ IF UniqueFails(orders, r, "order_number", l.orderNumber)
     THEN /\ RollbackAndEnd(r, 500, "duplicate")
          /\ UNCHANGED nextId
     ELSE /\ orders' = orders \cup
               {[id |-> nextId.orders, order_number |-> l.orderNumber,
                 subtotal |-> DecimalRound(l.subtotal),
                 tax_amount |-> DecimalRound(l.taxAmount),
                 discount_amount |-> 0,
                 total_amount |-> DecimalRound(l.totalAmount),
                 status |-> "Pending", by |-> r, committed |-> FALSE]}
          /\ nextId' = [nextId EXCEPT !.orders = @ + 1]
          /\ req' = [req EXCEPT ![r] =
                       [@ EXCEPT !.pc = "insItems", !.orderId = nextId.orders,
                                 !.idx = 1]]
          /\ UNCHANGED <<order_items, kots, kot_items>>
  /\ UNCHANGED <<now, menu, settings, upd, printers, mappings, svc, last>>

\* One iteration of `for (const item of orderItems)`.
CreateInsertItem(r) ==
  LET l == req[r] IN
  /\ l.pc = "insItems"
  /\ IF l.idx > Len(l.orderItems)
     THEN /\ req' = [req EXCEPT ![r] = [@ EXCEPT !.pc = "insKot"]]
          /\ UNCHANGED <<dbvars, nextId>>
     ELSE LET item == l.orderItems[l.idx] IN
          IF item.menu_item_id \notin DOMAIN menu
          THEN /\ RollbackAndEnd(r, 500, "foreign key")
               /\ UNCHANGED nextId
          ELSE /\ order_items' = order_items \cup
                    {[id |-> nextId.order_items, order_id |-> l.orderId,
                      menu_item_id |-> item.menu_item_id,
                      quantity |-> item.quantity,
                      unit_price |-> item.unit_price,
                      total_price |-> DecimalRound(item.total_price),
                      by |-> r, committed |-> FALSE]}
               /\ nextId' = [nextId EXCEPT !.order_items = @ + 1]
               /\ req' = [req EXCEPT ![r] = [@ EXCEPT !.idx = @ + 1]]
               /\ UNCHANGED <<orders, kots, kot_items>>
  /\ UNCHANGED <<now, menu, settings, upd, printers, mappings, svc, last>>

\* kotNumber, the category query and INSERT INTO kots.
CreateInsertKot(r) ==
  LET l == req[r] IN
  /\ l.pc = "insKot"
  /\ \E rnd \in Suffixes :
       LET kotNumber == KotNumber(now, rnd)
           categoryType == CategoryType(ItemCategories(l.snap, l.items))
       IN /\ ~UniqueWaits(kots, r, "kot_number", kotNumber)
          /\ IF UniqueFails(kots, r, "kot_number", kotNumber)
             THEN /\ RollbackAndEnd(r, 500, "duplicate")
                  /\ UNCHANGED nextId
             ELSE /\ kots' = kots \cup
                       {[id |-> nextId.kots, kot_number |-> kotNumber,
                         order_id |-> l.orderId,
                         category_type |-> categoryType,
                         status |-> "Pending", printed_at |-> 0,
                         completed_at |-> 0, by |-> r, committed |-> FALSE]}
                  /\ nextId' = [nextId EXCEPT !.kots = @ + 1]
                  /\ req' = [req EXCEPT ![r] =
                               [@ EXCEPT !.pc = "insKotItems",
                                         !.kotNumber = kotNumber,
                                         !.categoryType = categoryType,
                                         !.kotId = nextId.kots, !.idx = 1]]
                  /\ UNCHANGED <<orders, order_items, kot_items>>
  /\ UNCHANGED <<now, menu, settings, upd, printers, mappings, svc, last>>

\* SELECT * FROM order_items WHERE order_id = ?, read inside the transaction.
CreatedOrderItems(r) ==
  {oi \in order_items :
     oi.order_id = req[r].orderId /\ (oi.committed \/ oi.by = r)}

\* The n-th row of a result set returned in primary-key order.
NthById(S, n) ==
  CHOOSE x \in S : Cardinality({y \in S : y.id < x.id}) = n - 1

KotItemsFirstOnly(r) == IF CreatedOrderItems(r) = {} THEN 0 ELSE 1

KotItemsToCreate(r) == Cardinality(CreatedOrderItems(r))

\* One iteration of `for (const orderItem of createdOrderItems)`.
CreateInsertKotItem(r) ==
  LET l == req[r] IN
  /\ l.pc = "insKotItems"
  /\ IF l.idx > KotItemsToCreate(r)
     THEN /\ req' = [req EXCEPT ![r] = [@ EXCEPT !.pc = "commit"]]
          /\ UNCHANGED <<dbvars, nextId>>
     ELSE LET orderItem == NthById(CreatedOrderItems(r), l.idx) IN
          IF orderItem.menu_item_id \notin DOMAIN l.snap
          THEN /\ RollbackAndEnd(r, 500, "type error")
               /\ UNCHANGED nextId
          ELSE /\ kot_items' = kot_items \cup
                    {[id |-> nextId.kot_items, kot_id |-> l.kotId,
                      order_item_id |-> orderItem.id,
                      menu_item_name |-> l.snap[orderItem.menu_item_id].name,
                      quantity |-> orderItem.quantity,
                      status |-> "Pending", by |-> r, committed |-> FALSE]}
               /\ nextId' = [nextId EXCEPT !.kot_items = @ + 1]
               /\ req' = [req EXCEPT ![r] = [@ EXCEPT !.idx = @ + 1]]
               /\ UNCHANGED <<orders, order_items, kots>>
  /\ UNCHANGED <<now, menu, settings, upd, printers, mappings, svc, last>>

CreateCommit(r) ==
  /\ req[r].pc = "commit"
  /\ orders' = Commit(orders, r)
  /\ order_items' = Commit(order_items, r)
  /\ kots' = Commit(kots, r)
  /\ kot_items' = Commit(kot_items, r)
  /\ req' = [req EXCEPT ![r] = [@ EXCEPT !.pc = "settings", !.committed = TRUE]]
  /\ UNCHANGED <<now, menu, settings, upd, printers, mappings, svc, nextId, last>>

\* res.status(201).json({... total_amount: totalAmount ...})
Created(l) == Ended([l EXCEPT !.reply = l.totalAmount], 201)

AutoPrintAlways == TRUE

AutoPrintEnabled == settings.kot_auto_print = {"true"}

\* The read of kot_auto_print after the commit.
CreateReadAutoPrint(r) ==
  /\ req[r].pc = "settings"
  /\ req' = [req EXCEPT ![r] =
               IF AutoPrintEnabled THEN [@ EXCEPT !.pc = "print"]
               ELSE Created(@)]
  /\ UNCHANGED <<now, menu, settings, upd, printers, mappings, svc, nextId, dbvars, last>>

\* try { await printerService.printKOT(kotId) } catch { log }, then the 201.
CreateAutoPrint(r) ==
  /\ req[r].pc = "print"
  /\ \E connected \in BOOLEAN :
       /\ kots' = KotsAfterPrint(kots, req[r].kotId, connected, now)
       /\ req' = [req EXCEPT ![r] =
                    Created([@ EXCEPT !.printed =
                               IF PrintSucceeds(req[r].kotId, connected)
                               THEN "ok" ELSE "failed"])]
  /\ UNCHANGED <<now, menu, settings, upd, printers, mappings, svc, nextId,
                 orders, order_items, kot_items, last>>

\* An awaited statement of the handler rejects (connection lost, lock wait
\* timeout, ...): control passes to the catch block.
FaultPoints ==
  {"lookup", "insOrder", "insItems", "insKot", "insKotItems", "commit",
   "settings"}

CreateThrow(r) ==
  /\ req[r].pc \in FaultPoints
  /\ RollbackAndEnd(r, 500, "fault")
  /\ UNCHANGED <<now, menu, settings, upd, printers, mappings, svc, nextId, last>>

\* The statements issued on the handler's own connection inside the
\* transaction.
ConnectionPoints ==
  {"lookup", "insOrder", "insItems", "insKot", "insKotItems"}

\* A handler whose catch block threw: no response is sent, `finally` still
\* releases the connection.
Abandoned(l, how) ==
  [IdleReq EXCEPT !.pc = "done", !.items = l.items,
                  !.responses = l.responses, !.conn = "released",
                  !.releases = l.releases + 1, !.thrown = how]

\* The connection is lost: the awaited statement rejects and so does the
\* `await connection.rollback()` of the catch block, so the catch block
\* throws before res.status(500); the server discards the transaction of the
\* dead connection.
CreateThrowLost(r) ==
  /\ req[r].pc \in ConnectionPoints
  /\ orders' = Rollback(orders, r)
  /\ order_items' = Rollback(order_items, r)
  /\ kots' = Rollback(kots, r)
  /\ kot_items' = Rollback(kot_items, r)
  /\ req' = [req EXCEPT ![r] = Abandoned(@, "connection lost")]
  /\ UNCHANGED <<now, menu, settings, upd, printers, mappings, svc, nextId, last>>

(***************************************************************************)
(* Status updates and the print route.  last is the most recent of these   *)
(* requests with the status code of its response.                          *)
(***************************************************************************)
\* printer and connected belong to the print route: the printer selected
\* (0: none) and what its isPrinterConnected() and execute() came to; seen is
\* the printers table the selection queries of that request read.
Request(op, id, status, code) ==
  [op |-> op, id |-> id, status |-> status, code |-> code, printer |-> 0,
   connected |-> FALSE, seen |-> <<>>]

\* A statement issued through the pool waits for the row locks of an open
\* transaction.
Locked(T, ids) == \E x \in T : x.id \in ids /\ ~x.committed

OrderStatusValid(status) == status \in OrderStatuses

\* PUT /api/orders/:id/status
UpdateOrderStatus(id, status) ==
  /\ IF ~OrderStatusValid(status)
     THEN /\ last' = Request("order", id, status, 400)
          /\ UNCHANGED orders
     ELSE /\ ~Locked(orders, {id})
          /\ orders' = {IF o.id = id THEN [o EXCEPT !.status = status] ELSE o :
                          o \in orders}
          /\ last' = Request("order", id, status, 200)
  /\ UNCHANGED <<now, menu, settings, upd, printers, mappings, svc, nextId, req,
                 order_items, kots, kot_items>>

(***************************************************************************)
(* The ticket and ticket-line status routes issue their statements one     *)
(* await at a time through the pool; upd[u] is such a request in flight.   *)
(* was is the ticket row as it stood when the request arrived.             *)
(***************************************************************************)
NoTicket == [status |-> "", completed_at |-> 0]

IdleUpd ==
  [pc |-> "idle", op |-> "none", kotId |-> 0, itemId |-> 0, status |-> "",
   count |-> 0, was |-> NoTicket]

\* SELECT status, completed_at FROM kots WHERE id = ?
TicketRowOf(ks, kotId) ==
  IF \E k \in Committed(ks) : k.id = kotId
  THEN LET k == CHOOSE x \in Committed(ks) : x.id = kotId
       IN  [status |-> k.status, completed_at |-> k.completed_at]
  ELSE NoTicket

TicketRow(kotId) == TicketRowOf(kots, kotId)

KotStatusValid(status) == status \in KotStatuses

KotItemIds(kotId) == {ki.id : ki \in {x \in kot_items : x.kot_id = kotId}}

\* PUT /api/kots/:id/status: validation and UPDATE kots SET ... WHERE id = ?
UpdateKotStatus(u, id, status) ==
  /\ upd[u].pc = "idle"
  /\ IF ~KotStatusValid(status)
     THEN /\ last' = Request("kot", id, status, 400)
          /\ UNCHANGED <<kots, upd>>
     ELSE /\ ~Locked(kots, {id})
          /\ kots' = {IF k.id = id
                      THEN [k EXCEPT !.status = status,
                                     !.completed_at =
                                        IF status = "Ready" THEN now ELSE @]
                      ELSE k : k \in kots}
          /\ IF status = "Ready"
             THEN /\ upd' = [upd EXCEPT ![u] =
                               [IdleUpd EXCEPT !.pc = "kotItems", !.op = "kot",
                                               !.kotId = id, !.status = status]]
                  /\ UNCHANGED last
             ELSE /\ last' = Request("kot", id, status, 200)
                  /\ UNCHANGED upd
  /\ UNCHANGED <<now, menu, settings, printers, mappings, svc, nextId, req,
                 orders, order_items, kot_items>>

\* UPDATE kot_items SET status = "Ready" WHERE kot_id = ?, then the response
UpdateKotStatusItems(u) ==
  /\ upd[u].pc = "kotItems"
  /\ ~Locked(kot_items, KotItemIds(upd[u].kotId))
  /\ kot_items' = {IF ki.kot_id = upd[u].kotId
                   THEN [ki EXCEPT !.status = "Ready"]
                   ELSE ki : ki \in kot_items}
  /\ last' = Request("kot", upd[u].kotId, upd[u].status, 200)
  /\ upd' = [upd EXCEPT ![u] = IdleUpd]
  /\ UNCHANGED <<now, menu, settings, printers, mappings, svc, nextId, req,
                 orders, order_items, kots>>

KotItemStatusAcceptsAll(status) == TRUE

KotItemStatusValid(status) == status \in KotItemStatuses

\* UPDATE kot_items SET status = ? WHERE id = ? AND kot_id = ?
LineUpdated(kis, kotId, itemId, status) ==
  {IF ki.id = itemId /\ ki.kot_id = kotId
   THEN [ki EXCEPT !.status = status] ELSE ki : ki \in kis}

\* SELECT COUNT(*) FROM kot_items WHERE kot_id = ? AND status != "Ready"
PendingCount(kis, kotId) ==
  Cardinality({ki \in Committed(kis) : ki.kot_id = kotId /\ ki.status # "Ready"})

\* UPDATE kots SET status = "Ready", completed_at = NOW() WHERE id = ?
KotCascaded(ks, kotId, t) ==
  {IF k.id = kotId
   THEN [k EXCEPT !.status = "Ready", !.completed_at = t] ELSE k : k \in ks}

CascadeNever(status, count) == FALSE

CascadeDueOffByOne(status, count) == status = "Ready" /\ count = 1

CascadeDue(status, count) == status = "Ready" /\ count = 0

\* PUT /api/kots/:kotId/items/:itemId/status: the request and its validation
UpdateKotItemStatus(u, kotId, itemId, status) ==
  /\ upd[u].pc = "idle"
  /\ IF ~KotItemStatusValid(status)
     THEN /\ last' = Request("line", kotId, status, 400)
          /\ UNCHANGED upd
     ELSE /\ upd' = [upd EXCEPT ![u] =
                       [IdleUpd EXCEPT !.pc = "update", !.op = "line",
                                       !.kotId = kotId, !.itemId = itemId,
                                       !.status = status,
                                       !.was = TicketRow(kotId)]]
          /\ UNCHANGED last
  /\ UNCHANGED <<now, menu, settings, printers, mappings, svc, nextId, req, dbvars>>

\* the UPDATE of the line; any status but Ready is answered right after it
KotItemUpdate(u) ==
  LET l == upd[u] IN
  /\ l.pc = "update"
  /\ ~Locked(kot_items, {l.itemId})
  /\ kot_items' = LineUpdated(kot_items, l.kotId, l.itemId, l.status)
  /\ IF l.status = "Ready"
     THEN /\ upd' = [upd EXCEPT ![u].pc = "count"]
          /\ UNCHANGED last
     ELSE /\ upd' = [upd EXCEPT ![u] = IdleUpd]
          /\ last' = Request("line", l.kotId, l.status, 200)
  /\ UNCHANGED <<now, menu, settings, printers, mappings, svc, nextId, req,
                 orders, order_items, kots>>

\* the count of the ticket's lines that are not Ready
KotItemCount(u) ==
  LET l == upd[u]
      count == PendingCount(kot_items, l.kotId)
  IN  /\ l.pc = "count"
      /\ IF CascadeDue(l.status, count)
         THEN /\ upd' = [upd EXCEPT ![u].pc = "cascade", ![u].count = count]
              /\ UNCHANGED last
         ELSE /\ upd' = [upd EXCEPT ![u] = IdleUpd]
              /\ last' = Request("line", l.kotId, l.status, 200)
      /\ UNCHANGED <<now, menu, settings, printers, mappings, svc, nextId, req,
                     dbvars>>

\* the cascading UPDATE of the ticket, then the response
KotItemCascade(u) ==
  LET l == upd[u] IN
  /\ l.pc = "cascade"
  /\ ~Locked(kots, {l.kotId})
  /\ kots' = KotCascaded(kots, l.kotId, now)
  /\ upd' = [upd EXCEPT ![u] = IdleUpd]
  /\ last' = Request("line", l.kotId, l.status, 200)
  /\ UNCHANGED <<now, menu, settings, printers, mappings, svc, nextId, req,
                 orders, order_items, kot_items>>

\* the rows the selection of printKOT may return (no row for a missing KOT)
Selection(kotId) == IF KotFound(kotId) THEN PrinterChoices(kotId) ELSE {}

\* POST /api/kots/:id/print
PrintKot(kotId) ==
  /\ \E p \in (IF Selection(kotId) = {} THEN {0} ELSE Selection(kotId)) :
       \E connected \in (IF p = 0 THEN {FALSE} ELSE BOOLEAN) :
         /\ kots' = KotsAfterPrint(kots, kotId, connected, now)
         /\ last' = [Request("print", kotId, "",
                             IF PrintSucceeds(kotId, connected)
                             THEN 200 ELSE 500)
                       EXCEPT !.printer = p, !.connected = connected,
                              !.seen = printers]
  /\ UNCHANGED <<now, menu, settings, upd, printers, mappings, svc, nextId, req,
                 orders, order_items, kot_items>>

\* GET /api/printers/:id/status: the connectivity check stores its result;
\* initializePrinter throws for an inactive printer and the printer is
\* stored offline.
CheckPrinterStatus(p, connected) ==
  /\ p \in DOMAIN printers
  /\ printers' = [printers EXCEPT ![p].is_online =
                    printers[p].is_active /\ connected]
  /\ UNCHANGED <<now, menu, settings, upd, mappings, svc, nextId, req, dbvars, last>>

\* PUT /api/printers/:id with only is_active in the body: one UPDATE in its
\* own transaction; is_online is left as it is.
UpdatePrinter(p, active) ==
  /\ p \in DOMAIN printers
  /\ printers' = [printers EXCEPT ![p].is_active = active]
  /\ UNCHANGED <<now, menu, settings, upd, mappings, svc, nextId, req, dbvars, last>>

\* The INSERT INTO order_items of an open transaction holds a shared lock on
\* the menu_items row it references (foreign key check): an UPDATE or DELETE
\* of that row waits for the transaction to end.
MenuRowLocked(id) ==
  \E oi \in order_items : oi.menu_item_id = id /\ ~oi.committed

\* PUT /api/menu/items/:id: fields holds the columns the body gave; an empty
\* body is answered 400 and an unknown id 404, both without a change.
MenuAfterUpdate(id, fields) ==
  IF DOMAIN fields = {} \/ id \notin DOMAIN menu THEN menu
  ELSE [menu EXCEPT ![id] =
          [k \in DOMAIN menu[id] |->
             IF k \in DOMAIN fields THEN fields[k] ELSE menu[id][k]]]

UpdateMenuItemReprices(id, fields) ==
  /\ ~MenuRowLocked(id)
  /\ menu' = MenuAfterUpdate(id, fields)
  /\ order_items' =
       {IF oi.menu_item_id = id /\ "price" \in DOMAIN fields
        THEN [oi EXCEPT !.unit_price = fields.price] ELSE oi : oi \in order_items}
  /\ UNCHANGED <<now, settings, upd, printers, mappings, svc, nextId, req, orders,
                 kots, kot_items, last>>

UpdateMenuItem(id, fields) ==
  /\ ~MenuRowLocked(id)
  /\ menu' = MenuAfterUpdate(id, fields)
  /\ UNCHANGED <<now, settings, upd, printers, mappings, svc, nextId, req, dbvars, last>>

\* FOREIGN KEY (menu_item_id) REFERENCES menu_items(id) ON DELETE CASCADE
OrderItemsOfMenuItem(id) == {oi \in order_items : oi.menu_item_id = id}

\* FOREIGN KEY (order_item_id) REFERENCES order_items(id) ON DELETE CASCADE
KotItemsOfOrderItems(ois) ==
  {ki \in kot_items : \E oi \in ois : ki.order_item_id = oi.id}

\* DELETE /api/menu/items/:id, with the cascades of the schema
DeleteMenuItem(id) ==
  /\ ~MenuRowLocked(id)
  /\ menu' = [i \in DOMAIN menu \ {id} |-> menu[i]]
  /\ order_items' = order_items \ OrderItemsOfMenuItem(id)
  /\ kot_items' = kot_items \ KotItemsOfOrderItems(OrderItemsOfMenuItem(id))
  /\ UNCHANGED <<now, settings, upd, printers, mappings, svc, nextId, req, orders,
                 kots, last>>

\* the tax_rate row of system_settings is given another value
UpdateTaxRate(v) ==
  /\ settings' = [settings EXCEPT !.tax_rate = {v}]
  /\ UNCHANGED <<now, menu, upd, printers, mappings, svc, nextId, req, dbvars, last>>

(***************************************************************************)
(* PrinterService, the singleton the routes share.  svc.printers is its    *)
(* this.printers map (printer id -> ThermalPrinter object), svc.objects    *)
(* the ThermalPrinter objects created so far, each the buffer its println  *)
(* calls filled, and svc.jobs the printKOT calls in flight, one record of  *)
(* locals per call.                                                        *)
(***************************************************************************)
IdleJob ==
  [pc |-> "idle", kotId |-> 0, printerId |-> 0, printer |-> 0,
   formatted |-> <<>>, sent |-> <<>>, code |-> 0]

NewService ==
  [printers |-> <<>>, objects |-> <<>>, jobs |-> [j \in Jobs |-> IdleJob]]

JobEnded(j, code) ==
  svc' = [svc EXCEPT !.jobs[j].pc = "done", !.jobs[j].code = code]

\* a request for POST /api/kots/:id/print arrives
PrintKotBegin(j, kotId) ==
  /\ svc.jobs[j].pc \in {"idle", "done"}
  /\ svc' = [svc EXCEPT !.jobs[j] =
               [IdleJob EXCEPT !.pc = "select", !.kotId = kotId]]
  /\ UNCHANGED <<now, menu, settings, upd, printers, mappings, nextId, req,
                 dbvars, last>>

\* the KOT, its items and the printer queries
PrintKotSelect(j) ==
  LET job == svc.jobs[j] IN
  /\ job.pc = "select"
  /\ IF Selection(job.kotId) = {}
     THEN JobEnded(j, 500)
     ELSE \E p \in Selection(job.kotId) :
            svc' = [svc EXCEPT !.jobs[j].pc = "initialize",
                               !.jobs[j].printerId = p]
  /\ UNCHANGED <<now, menu, settings, upd, printers, mappings, nextId, req,
                 dbvars, last>>

InitializePrinterCached(j) ==
  LET job == svc.jobs[j]
      cached == job.printerId \in DOMAIN svc.printers
      o == IF cached THEN svc.printers[job.printerId]
           ELSE Len(svc.objects) + 1
  IN
  /\ job.pc = "initialize"
  /\ Len(svc.objects) < MaxObjects
  /\ svc' = [svc EXCEPT
               !.objects = IF cached THEN @ ELSE Append(@, <<>>),
               !.printers = (job.printerId :> o) @@ @,
               !.jobs[j].printer = o,
               !.jobs[j].pc = "format"]
  /\ UNCHANGED <<now, menu, settings, upd, printers, mappings, nextId, req,
                 dbvars, last>>

\* initializePrinter: the printer row is read, a new ThermalPrinter is
\* constructed, stored in this.printers and returned.
InitializePrinter(j) ==
  LET job == svc.jobs[j]
      o == Len(svc.objects) + 1
  IN
  /\ job.pc = "initialize"
  /\ Len(svc.objects) < MaxObjects
  /\ IF ~printers[job.printerId].is_active
     THEN JobEnded(j, 500)
     ELSE svc' = [svc EXCEPT
                    !.objects = Append(@, <<>>),
                    !.printers = (job.printerId :> o) @@ @,
                    !.jobs[j].printer = o,
                    !.jobs[j].pc = "format"]
  /\ UNCHANGED <<now, menu, settings, upd, printers, mappings, nextId, req,
                 dbvars, last>>

\* what the println calls of a printKOT call write: the ticket, tagged with
\* the call that wrote it
KotContent(kotId, j) == <<[kot |-> kotId, call |-> j]>>

\* printer.alignCenter() ... printer.cut(): synchronous, into the buffer of
\* the object the call holds
PrintKotFormat(j) ==
  LET job == svc.jobs[j]
      content == KotContent(job.kotId, j)
  IN
  /\ job.pc = "format"
  /\ svc' = [svc EXCEPT !.objects[job.printer] = @ \o content,
                        !.jobs[j].formatted = content,
                        !.jobs[j].pc = "check"]
  /\ UNCHANGED <<now, menu, settings, upd, printers, mappings, nextId, req,
                 dbvars, last>>

\* await printer.isPrinterConnected()
PrintKotCheck(j) ==
  /\ svc.jobs[j].pc = "check"
  /\ \E connected \in BOOLEAN :
       IF connected THEN svc' = [svc EXCEPT !.jobs[j].pc = "execute"]
       ELSE JobEnded(j, 500)
  /\ UNCHANGED <<now, menu, settings, upd, printers, mappings, nextId, req,
                 dbvars, last>>

\* await printer.execute(): the buffer of the object goes to the device
PrintKotExecute(j) ==
  LET job == svc.jobs[j] IN
  /\ job.pc = "execute"
  /\ svc' = [svc EXCEPT !.jobs[j].sent = svc.objects[job.printer],
                        !.jobs[j].pc = "mark"]
  /\ UNCHANGED <<now, menu, settings, upd, printers, mappings, nextId, req,
                 dbvars, last>>

\* UPDATE kots SET status = "Printed", printed_at = NOW()
PrintKotMark(j) ==
  LET job == svc.jobs[j] IN
  /\ job.pc = "mark"
  /\ ~Locked(kots, {job.kotId})
  /\ kots' = MarkPrinted(kots, job.kotId, now)
  /\ JobEnded(j, 200)
  /\ UNCHANGED <<now, menu, settings, upd, printers, mappings, nextId, req,
                 orders, order_items, kot_items, last>>

\* Date.now() advances.
Tick ==
  /\ now < MaxTime
  /\ now' = now + 1
  /\ UNCHANGED <<menu, settings, upd, printers, mappings, svc, nextId, req, dbvars, last>>

(***************************************************************************)
(* Initial states: the database after the migration, with a menu and a     *)
(* printer entered through the menu and printer routes.                    *)
(***************************************************************************)
MenuItem(sc, name, price, avail) ==
  [subcategory_id |-> sc, name |-> name, price |-> price, is_available |-> avail]

Line(id, q) == [menu_item_id |-> id, quantity |-> q]

Body(t, items) == [order_type |-> t, items |-> items]

Printer(type, active, online) ==
  [type |-> type, is_active |-> active, is_online |-> online]

NoRequest == Request("none", 0, "", 0)

InitWith(m, st, ps, maps) ==
  /\ now = 1
  /\ menu = m
  /\ settings = st
  /\ printers = ps
  /\ mappings = maps
  /\ svc = NewService
  /\ orders = {}
  /\ order_items = {}
  /\ kots = {}
  /\ kot_items = {}
  /\ nextId = [orders |-> 1, order_items |-> 1, kots |-> 1, kot_items |-> 1]
  /\ req = [r \in Requests |-> IdleReq]
  /\ upd = [u \in Updaters |-> IdleUpd]
  /\ last = NoRequest

Catalog ==
  <<MenuItem(1, "Margherita", 100, TRUE), MenuItem(5, "Espresso", 250, FALSE)>>

DefaultSettings == [tax_rate |-> {850}, kot_auto_print |-> {"true"}]

OnePrinter == <<Printer("Kitchen", TRUE, FALSE)>>

CreateStep(r, bodies) ==
  \/ \E body \in bodies : CreateBegin(r, body)
  \/ CreateLookup(r)
  \/ CreateInsertOrder(r)
  \/ CreateInsertItem(r)
  \/ CreateInsertKot(r)
  \/ CreateInsertKotItem(r)
  \/ CreateCommit(r)
  \/ CreateReadAutoPrint(r)

(***************************************************************************)
(* Spec: concurrent create-order requests with faults at every awaited     *)
(* statement.                                                              *)
(***************************************************************************)
Init == InitWith(Catalog, DefaultSettings, OnePrinter, {})

Bodies ==
  {Body("Dine-in", <<Line(1, 1)>>),
   Body("Dine-in", <<Line(1, MaxQty), Line(1, 1)>>),
   Body("Takeaway", <<Line(1, 1), Line(2, 1)>>),
   Body("Takeaway", <<Line(1, 1), Line(3, 1)>>),
   Body("Dine-in", <<Line(1, 0)>>)}

Next ==
  \/ \E r \in Requests : CreateStep(r, Bodies)
  \/ \E r \in Requests : CreateAutoPrint(r)
  \/ \E r \in Requests : CreateThrow(r)

Spec == Init /\ [][Next]_vars

(***************************************************************************)
(* SpecLife: concurrent create-order requests together with status updates *)
(* and print requests on the committed rows.  Auto-print is disabled, so   *)
(* the handler never reaches its printKOT call.                            *)
(***************************************************************************)
\* The first request orders the same menu item on two lines; the others
\* order one line.
LifeBodies(r) ==
  IF r = 1 THEN {Body("Dine-in", <<Line(1, MaxQty), Line(1, 1)>>)}
  ELSE {Body("Dine-in", <<Line(1, 1)>>)}

\* Status updates and prints address the first order and the first ticket
\* (whichever request created them); ticket lines are addressed by any id.
LifeIds == {1}
LifeLineIds == {1}
LifeOrderInputs == {"Completed"}
LifeKotInputs == {"Served"}
LifeLineInputs == {"Ready"}

NextLife ==
  \/ \E r \in Requests : CreateStep(r, LifeBodies(r))
  \/ \E id \in LifeIds, s \in LifeOrderInputs : UpdateOrderStatus(id, s)
  \/ \E id \in LifeIds, s \in LifeKotInputs : UpdateKotStatus(1, id, s)
  \/ \E id \in LifeIds, it \in LifeLineIds, s \in LifeLineInputs :
       UpdateKotItemStatus(1, id, it, s)
  \/ KotItemUpdate(1)
  \/ KotItemCount(1)
  \/ KotItemCascade(1)
  \/ \E id \in LifeIds : PrintKot(id)

InitLife ==
  InitWith(Catalog, [tax_rate |-> {850}, kot_auto_print |-> {"false"}],
           <<Printer("Kitchen", TRUE, TRUE)>>, {})

SpecLife == InitLife /\ [][NextLife]_vars

(***************************************************************************)
(* SpecPost: one create-order request and what follows its commit: the     *)
(* auto-print setting (enabled, disabled or absent), printer routing with  *)
(* a Kitchen printer and a Bar printer mapped to the Pizza subcategory,    *)
(* each online or offline, and faults.                                     *)
(***************************************************************************)
AutoPrintSettings == {{"true"}, {"false"}, {}}

TwoPrinters == <<Printer("Kitchen", TRUE, FALSE), Printer("Bar", TRUE, FALSE)>>

PizzaMapping == {[printer_id |-> 2, category_id |-> 1, subcategory_id |-> 1]}

InitPost ==
  \E ap \in AutoPrintSettings :
    InitWith(Catalog, [tax_rate |-> {850}, kot_auto_print |-> ap],
             TwoPrinters, PizzaMapping)

PostBodies == {Body("Dine-in", <<Line(1, 1)>>)}

NextPost ==
  \/ CreateStep(1, PostBodies)
  \/ CreateAutoPrint(1)
  \/ CreateThrow(1)
  \/ \E p \in DOMAIN printers, c \in BOOLEAN : CheckPrinterStatus(p, c)

SpecPost == InitPost /\ [][NextPost]_vars

(***************************************************************************)
(* SpecStatus: one order with two lines, then status requests issued one   *)
(* after another by a client that awaits each response; the                *)
(* inputs include values outside each entity's status set.                 *)
(***************************************************************************)
StatusBodies == {Body("Dine-in", <<Line(1, 1), Line(1, MaxQty)>>)}

StatusOrderInputs == {"Completed", "Cancelled", "Bogus"}
StatusKotInputs == KotStatuses \cup {"Bogus"}
StatusLineInputs == KotItemStatuses \cup {"Printed", "Bogus"}
StatusIds == {1}
StatusLineIds == {1, 2}

\* no ticket or ticket-line status request is in flight
Quiet == \A u \in Updaters : upd[u].pc = "idle"

InitStatus ==
  InitWith(Catalog, [tax_rate |-> {850}, kot_auto_print |-> {"false"}],
           <<Printer("Kitchen", TRUE, TRUE)>>, {})

NextStatus ==
  \/ CreateStep(1, StatusBodies)
  \/ Quiet /\ \E id \in StatusIds, s \in StatusOrderInputs :
                UpdateOrderStatus(id, s)
  \/ \E id \in StatusIds, s \in StatusKotInputs : UpdateKotStatus(1, id, s)
  \/ UpdateKotStatusItems(1)
  \/ \E id \in StatusIds, it \in StatusLineIds, s \in StatusLineInputs :
       UpdateKotItemStatus(1, id, it, s)
  \/ KotItemUpdate(1)
  \/ KotItemCount(1)
  \/ KotItemCascade(1)

SpecStatus == InitStatus /\ [][NextStatus]_vars

(***************************************************************************)
(* SpecPricing: one order of up to MaxLines lines over a menu of prices    *)
(* 0.06, 0.57, 0.37, 1.00 and 100.00, with the tax rate setting 8.5, 10 or *)
(* absent, carried through its inserts and commit.                         *)
(***************************************************************************)
MaxLines == 3

PricingCatalog ==
  <<MenuItem(1, "Garlic Dip", 6, TRUE), MenuItem(1, "Focaccia", 57, TRUE),
    MenuItem(2, "Olives", 37, TRUE), MenuItem(5, "Water", 100, TRUE),
    MenuItem(3, "Banquet", 10000, TRUE)>>

PricingTaxRates == {{850}, {1000}, {}}

PricingLines ==
  {Line(id, q) : id \in DOMAIN PricingCatalog, q \in 1..MaxQty}

PricingBodies ==
  {Body("Dine-in", items) :
     items \in UNION {[1..n -> PricingLines] : n \in 1..MaxLines}}

InitPricing ==
  \E rate \in PricingTaxRates :
    InitWith(PricingCatalog,
             [tax_rate |-> rate, kot_auto_print |-> {"false"}], OnePrinter, {})

NextPricing == CreateStep(1, PricingBodies)

SpecPricing == InitPricing /\ [][NextPricing]_vars

(***************************************************************************)
(* SpecNumbers: concurrent create-order requests for available items while *)
(* the clock advances; no statement fails for an outside reason.           *)
(***************************************************************************)
NumberBodies == {Body("Takeaway", <<Line(1, 1)>>)}

InitNumbers ==
  InitWith(Catalog, [tax_rate |-> {850}, kot_auto_print |-> {"false"}],
           OnePrinter, {})

NextNumbers ==
  \/ \E r \in Requests : CreateStep(r, NumberBodies)
  \/ Tick

SpecNumbers == InitNumbers /\ [][NextNumbers]_vars

(***************************************************************************)
(* SpecRoute: one order for a starter (subcategory 1, category 1) or a     *)
(* water (subcategory 5, category 2), the auto-print setting enabled,      *)
(* disabled or absent, explicit print requests for its ticket, and four    *)
(* printers: two Kitchen printers, a Bar printer mapped to subcategory 1   *)
(* and a General printer mapped to category 2 without a subcategory.       *)
(* Printers go online and offline and the Bar printer is (de)activated.    *)
(***************************************************************************)
RoutePrinters ==
  <<Printer("Kitchen", TRUE, FALSE), Printer("Kitchen", TRUE, FALSE),
    Printer("Bar", TRUE, FALSE), Printer("General", TRUE, FALSE)>>

\* subcategory_id 0 stands for NULL
RouteMappings ==
  {[printer_id |-> 3, category_id |-> 1, subcategory_id |-> 1],
   [printer_id |-> 4, category_id |-> 2, subcategory_id |-> 0]}

RouteBodies ==
  {Body("Dine-in", <<Line(1, 1)>>), Body("Dine-in", <<Line(4, 1)>>)}

RouteIds == {1}
RouteSwitchable == {3}

InitRoute ==
  \E ap \in AutoPrintSettings :
    InitWith(PricingCatalog, [tax_rate |-> {850}, kot_auto_print |-> ap],
             RoutePrinters, RouteMappings)

NextRoute ==
  \/ CreateStep(1, RouteBodies)
  \/ CreateAutoPrint(1)
  \/ \E id \in RouteIds : PrintKot(id)
  \/ \E p \in DOMAIN printers, c \in BOOLEAN : CheckPrinterStatus(p, c)
  \/ \E p \in RouteSwitchable, a \in BOOLEAN : UpdatePrinter(p, a)

SpecRoute == InitRoute /\ [][NextRoute]_vars

(***************************************************************************)
(* SpecCatalog: one order of two lines, then changes of the catalog and of *)
(* the tax rate next to status updates and prints.                         *)
(***************************************************************************)
CatalogMenu ==
  <<MenuItem(1, "Margherita", 100, TRUE), MenuItem(5, "Water", 57, TRUE)>>

CatalogBodies == {Body("Dine-in", <<Line(1, 1), Line(2, MaxQty)>>)}

CatalogUpdates == {[name |-> "Calzone"], [price |-> 120]}
CatalogUpdateIds == {1}
CatalogDeleteIds == {1, 2}
CatalogTaxRates == {850, 1000}
CatalogIds == {1}

InitCatalog ==
  InitWith(CatalogMenu, [tax_rate |-> {850}, kot_auto_print |-> {"false"}],
           <<Printer("Kitchen", TRUE, TRUE)>>, {})

NextCatalog ==
  \/ CreateStep(1, CatalogBodies)
  \/ \E id \in CatalogUpdateIds, f \in CatalogUpdates : UpdateMenuItem(id, f)
  \/ \E id \in CatalogDeleteIds : DeleteMenuItem(id)
  \/ \E v \in CatalogTaxRates : UpdateTaxRate(v)
  \/ Quiet /\ \E id \in CatalogIds : UpdateOrderStatus(id, "Completed")
  \/ \E id \in CatalogIds : UpdateKotStatus(1, id, "Ready")
  \/ UpdateKotStatusItems(1)
  \/ \E id \in CatalogIds : UpdateKotItemStatus(1, id, 1, "Ready")
  \/ KotItemUpdate(1)
  \/ KotItemCount(1)
  \/ KotItemCascade(1)
  \/ \E id \in CatalogIds : PrintKot(id)

SpecCatalog == InitCatalog /\ [][NextCatalog]_vars

(***************************************************************************)
(* SpecTag: one order of up to MaxLines lines over a catalog with an item  *)
(* of each category, in every order and with repetitions.                  *)
(***************************************************************************)
TagCatalog ==
  <<MenuItem(1, "Margherita", 100, TRUE), MenuItem(5, "Espresso", 250, TRUE),
    MenuItem(8, "Pool Hour", 500, TRUE)>>

TagBodies ==
  {Body("Dine-in", items) :
     items \in UNION {[1..n -> {Line(id, 1) : id \in DOMAIN TagCatalog}] :
                        n \in 1..MaxLines}}

InitTag ==
  InitWith(TagCatalog, [tax_rate |-> {850}, kot_auto_print |-> {"false"}],
           OnePrinter, {})

NextTag == CreateStep(1, TagBodies)

SpecTag == InitTag /\ [][NextTag]_vars

(***************************************************************************)
(* SpecJobs: one order, then MaxJobs concurrent printKOT calls for its     *)
(* ticket, statement by statement, with two Kitchen printers online.       *)
(***************************************************************************)
JobBodies == {Body("Dine-in", <<Line(1, 1)>>)}
JobIds == {1}

InitJobs ==
  InitWith(Catalog, [tax_rate |-> {850}, kot_auto_print |-> {"false"}],
           <<Printer("Kitchen", TRUE, TRUE), Printer("Kitchen", TRUE, TRUE)>>,
           {})

NextJobs ==
  \/ CreateStep(1, JobBodies)
  \/ \E j \in Jobs, id \in JobIds : PrintKotBegin(j, id)
  \/ \E j \in Jobs : PrintKotSelect(j)
  \/ \E j \in Jobs : InitializePrinter(j)
  \/ \E j \in Jobs : PrintKotFormat(j)
  \/ \E j \in Jobs : PrintKotCheck(j)
  \/ \E j \in Jobs : PrintKotExecute(j)
  \/ \E j \in Jobs : PrintKotMark(j)

SpecJobs == InitJobs /\ [][NextJobs]_vars

(***************************************************************************)
(* SpecRace: one order of two lines, then concurrent requests that set its *)
(* lines to Ready, statement by statement.                                 *)
(***************************************************************************)
RaceIds == {1}
RaceLineIds == {1, 2}

NextRace ==
  \/ CreateStep(1, StatusBodies)
  \/ \E u \in Updaters, id \in RaceIds, it \in RaceLineIds :
       UpdateKotItemStatus(u, id, it, "Ready")
  \/ \E u \in Updaters : KotItemUpdate(u)
  \/ \E u \in Updaters : KotItemCount(u)
  \/ \E u \in Updaters : KotItemCascade(u)

SpecRace == InitStatus /\ [][NextRace]_vars

(***************************************************************************)
(* SpecStray: one order of one line, then serial ticket-line requests with *)
(* ticket and line identifiers that exist or not, next to the ticket       *)
(* being served.                                                           *)
(***************************************************************************)
StrayBodies == {Body("Dine-in", <<Line(1, 1)>>)}
StrayIds == {1, 2}
StrayLineIds == {1, 2}

NextStray ==
  \/ CreateStep(1, StrayBodies)
  \/ \E id \in StrayIds : UpdateKotStatus(1, id, "Served")
  \/ \E id \in StrayIds, it \in StrayLineIds :
       UpdateKotItemStatus(1, id, it, "Ready")
  \/ KotItemUpdate(1)
  \/ KotItemCount(1)
  \/ KotItemCascade(1)
  \/ Tick

SpecStray == InitStatus /\ [][NextStray]_vars

(***************************************************************************)
(* SpecFault: create-order requests on every path: validation failure,     *)
(* unavailable item, a rejected statement with the connection alive or     *)
(* lost, a failure after the commit, success.                              *)
(***************************************************************************)
NextFault ==
  \/ \E r \in Requests : CreateStep(r, Bodies)
  \/ \E r \in Requests : CreateAutoPrint(r)
  \/ \E r \in Requests : CreateThrow(r)
  \/ \E r \in Requests : CreateThrowLost(r)

SpecFault == Init /\ [][NextFault]_vars

(***************************************************************************)
(* Claims.                                                                 *)
(***************************************************************************)
RowsBy(r) ==
  {x \in orders : x.by = r} \cup {x \in order_items : x.by = r}
    \cup {x \in kots : x.by = r} \cup {x \in kot_items : x.by = r}

\* C1: a create-order request that ended without having committed (failed
\* validation, an unavailable item, a duplicate number, or a fault at any
\* awaited statement up to and including the commit) has left no order,
\* order-line, ticket or ticket-line row of its own.
C1_AllOrNothing ==
  \A r \in Requests :
    req[r].pc = "done" /\ ~req[r].committed => RowsBy(r) = {}

\* A request ended by a fault after ticket lines had been inserted, and the
\* ticket-line table is empty again.
C1_Witness ==
  /\ nextId.kot_items > 1
  /\ kot_items = {}
  /\ \E r \in Requests :
       req[r].pc = "done" /\ req[r].thrown = "fault" /\ req[r].code = 500

Unavailable(id) == id \notin DOMAIN menu \/ ~menu[id].is_available

NamesMissingItem(items) ==
  \E i \in 1..Len(items) : Unavailable(items[i].menu_item_id)

\* C4: a request that names a menu item that does not exist or is flagged
\* unavailable (the menu does not change in this specification) never has a
\* row of its own in any table, and unless a statement faulted first it ends
\* with the 400 availability response, uncommitted.
C4_UnavailableRejected ==
  \A r \in Requests :
    NamesMissingItem(req[r].items) =>
      /\ RowsBy(r) = {}
      /\ ~req[r].committed
      /\ req[r].pc = "done" =>
           (req[r].code = 400 \/ (req[r].code = 500 /\ req[r].thrown = "fault"))

\* A request whose first line is valid and whose second line is not was
\* rejected with 400.
C4_Witness ==
  \E r \in Requests :
    /\ req[r].pc = "done" /\ req[r].code = 400
    /\ Len(req[r].items) = 2
    /\ ~Unavailable(req[r].items[1].menu_item_id)
    /\ Unavailable(req[r].items[2].menu_item_id)

OrderLinesOf(o) == {oi \in Committed(order_items) : oi.order_id = o.id}

TicketsOf(o) == {k \in Committed(kots) : k.order_id = o.id}

TicketLinesOf(k) == {ki \in Committed(kot_items) : ki.kot_id = k.id}

\* C2: in every state, every committed order has exactly one committed
\* ticket, it has one order line per line of its request, and the ticket
\* has as many ticket lines as the order has order lines, the ticket lines
\* referencing exactly the order lines of that order, each one once.
C2_OneTicketLinePerOrderLine ==
  \A o \in Committed(orders) :
    /\ Cardinality(TicketsOf(o)) = 1
    /\ Cardinality(OrderLinesOf(o)) = Len(req[o.by].items)
    /\ \A k \in TicketsOf(o) :
         /\ Cardinality(TicketLinesOf(k)) = Cardinality(OrderLinesOf(o))
         /\ {ki.order_item_id : ki \in TicketLinesOf(k)} =
              {oi.id : oi \in OrderLinesOf(o)}

\* Two committed orders whose inserts interleaved (the two order lines of one
\* order, both for the same menu item, do not have consecutive ids), and the
\* ticket of that order has been printed and then made Ready by its lines.
C2_Witness ==
  \E o1 \in Committed(orders), o2 \in Committed(orders) :
    /\ o1.id # o2.id
    /\ \E a \in OrderLinesOf(o1), b \in OrderLinesOf(o1) :
         a.id + 2 = b.id /\ a.menu_item_id = b.menu_item_id
    /\ \E k \in TicketsOf(o1) :
         k.status = "Ready" /\ k.printed_at # 0 /\ k.completed_at # 0

\* C3 (as claimed): a request whose transaction has committed ends with the
\* 201 success response, its order, order lines, ticket and ticket lines are
\* all there, and its ticket is Pending unless the auto-print succeeded.
C3_CommittedReportsSuccess ==
  \A r \in Requests :
    req[r].pc = "done" /\ req[r].committed =>
      /\ req[r].code = 201
      /\ \E o \in Committed(orders) :
           /\ o.by = r
           /\ Cardinality(OrderLinesOf(o)) = Len(req[r].items)
           /\ \E k \in TicketsOf(o) :
                /\ Cardinality(TicketLinesOf(k)) = Len(req[r].items)
                /\ req[r].printed # "ok" => k.status = "Pending"

AllLinesReady(kis, kotId) ==
  \A ki \in Committed(kis) : ki.kot_id = kotId => ki.status = "Ready"

\* the step in which the ticket-line status request u is answered
LineAnswered(u) ==
  upd[u].op = "line" /\ upd[u].pc # "idle" /\ upd'[u].pc = "idle"

\* C5: when a ticket-line status request for an existing ticket is answered,
\* then if it set a line to Ready and all lines of the ticket are Ready the
\* ticket is Ready with a completed timestamp, and if some line of the ticket
\* is not Ready the ticket row is as it was when the request arrived.
C5_Cascade ==
  [][\A u \in Updaters :
       LineAnswered(u) /\ upd[u].was # NoTicket =>
         IF AllLinesReady(kot_items', upd[u].kotId)
         THEN upd[u].status = "Ready" =>
                /\ TicketRowOf(kots', upd[u].kotId).status = "Ready"
                /\ TicketRowOf(kots', upd[u].kotId).completed_at # 0
         ELSE TicketRowOf(kots', upd[u].kotId) = upd[u].was]_vars

C5_Witness ==
  /\ last = Request("line", 1, "Ready", 200)
  /\ Quiet
  /\ AllLinesReady(kot_items, 1)
  /\ Cardinality(TicketLinesOf([id |-> 1])) = 2
  /\ TicketRow(1).status = "Ready"
  /\ orders # {}

InvalidStatus(l) ==
  \/ l.op = "order" /\ l.status \notin OrderStatuses
  \/ l.op = "kot" /\ l.status \notin KotStatuses
  \/ l.op = "line" /\ l.status \notin KotItemStatuses

\* C6: a status request for an order, a ticket or a ticket line whose value
\* is outside that entity's status set is answered 400 and changes no order,
\* order-line, ticket or ticket-line row.
C6_InvalidStatusRejected ==
  [][last' # last /\ InvalidStatus(last') =>
       last'.code = 400 /\ UNCHANGED dbvars]_vars

C6_Witness ==
  /\ last = Request("line", 1, "Printed", 400)
  /\ Cardinality(TicketLinesOf([id |-> 1])) = 2
  /\ \A ki \in TicketLinesOf([id |-> 1]) : ki.status # "Printed"

\* C7 (as claimed): an order is never Completed while one of its tickets is
\* not Served.
C7_CompletedOnlyWhenServed ==
  \A o \in Committed(orders) :
    o.status = "Completed" => \A k \in TicketsOf(o) : k.status = "Served"

RECURSIVE SumOfTotalPrice(_)
SumOfTotalPrice(S) ==
  IF S = {} THEN 0
  ELSE LET x == CHOOSE y \in S : TRUE
       IN  x.total_price + SumOfTotalPrice(S \ {x})

Distance(a, b) == IF a >= b THEN a - b ELSE b - a

\* C8: for every persisted order (amounts in cents) total_amount is within
\* one cent of subtotal + tax_amount - discount_amount, subtotal is the sum
\* of its lines' total_price, each line's total_price is quantity times
\* unit_price, and total_amount is not negative.
C8_PricingInvariant ==
  \A o \in Committed(orders) :
    /\ Distance(o.total_amount,
                o.subtotal + o.tax_amount - o.discount_amount) <= 1
    /\ o.subtotal = SumOfTotalPrice(OrderLinesOf(o))
    /\ \A oi \in OrderLinesOf(o) : oi.total_price = oi.quantity * oi.unit_price
    /\ o.total_amount >= 0

C8_Witness ==
  \E o \in Committed(orders) :
    /\ Cardinality(OrderLinesOf(o)) = MaxLines
    /\ \E oi \in OrderLinesOf(o) : oi.quantity > 1
    /\ o.tax_amount > 0
    /\ o.total_amount = o.subtotal + o.tax_amount

ConfiguredRate ==
  IF settings.tax_rate = {} THEN DefaultTaxRate
  ELSE CHOOSE v \in settings.tax_rate : TRUE

\* subtotal (cents) times rate (hundredths of a percent) / 100, in cents,
\* rounded half up
HalfUpTax(subtotal, rate) == (subtotal * rate + 5000) \div 10000

\* C9 (as claimed): the persisted tax amount of every order is its subtotal
\* times the configured tax rate / 100 rounded half up to two decimals.
C9_TaxRoundedHalfUp ==
  \A o \in Committed(orders) :
    o.tax_amount = HalfUpTax(o.subtotal, ConfiguredRate)

\* C10 (as claimed): while the clock has not advanced, so that all requests
\* fall within one millisecond, every finished request has created its order
\* and answered 201; and in every state no two orders share an order number
\* and no two tickets share a ticket number.
C10_SameMillisecondBothCreated ==
  /\ now = 1 =>
       \A r \in Requests :
         req[r].pc = "done" => req[r].committed /\ req[r].code = 201
  /\ \A o1, o2 \in orders :
       o1.id # o2.id => o1.order_number # o2.order_number
  /\ \A k1, k2 \in kots : k1.id # k2.id => k1.kot_number # k2.kot_number

RowsOfOthers(T, r) == {x \in T : x.by # r}

\* the step in which request r fails on a duplicate order or ticket number
FailsOnDuplicate(r) ==
  req[r].thrown # "duplicate" /\ req'[r].thrown = "duplicate"

\* C11: when a create-order request fails because its generated order or
\* ticket number already exists, it is answered 500 with none of its own
\* order, order-line, ticket or ticket-line rows left, and every row of the
\* other requests, the one carrying that number included, is unchanged.
C11_DuplicateFailsCleanly ==
  [][\A r \in Requests :
       FailsOnDuplicate(r) =>
         /\ req'[r].code = 500 /\ ~req'[r].committed
         /\ \A x \in orders' \cup order_items' \cup kots' \cup kot_items' :
              x.by # r
         /\ RowsOfOthers(orders', r) = RowsOfOthers(orders, r)
         /\ RowsOfOthers(order_items', r) = RowsOfOthers(order_items, r)
         /\ RowsOfOthers(kots', r) = RowsOfOthers(kots, r)
         /\ RowsOfOthers(kot_items', r) = RowsOfOthers(kot_items, r)]_vars

C11_Witness ==
  \E r \in Requests :
    /\ req[r].pc = "done" /\ req[r].thrown = "duplicate"
    /\ RowsBy(r) = {}
    /\ \E o \in Committed(orders) : \E k \in TicketsOf(o) : o.by # r

\* the step that answers an explicit print request
PrintAnswered == last' # last /\ last'.op = "print"

TicketExists(kotId) == \E k \in Committed(kots) : k.id = kotId

\* the menu items behind the lines of a ticket
TicketItems(kotId) ==
  {oi.menu_item_id :
     oi \in {x \in Committed(order_items) :
               \E ki \in Committed(kot_items) :
                 ki.kot_id = kotId /\ ki.order_item_id = x.id}}

ActiveOnline(p) == printers[p].is_active /\ printers[p].is_online

SubcategoryMapped(kotId) ==
  {p \in DOMAIN printers :
     /\ ActiveOnline(p)
     /\ \E m \in mappings, i \in TicketItems(kotId) :
          m.printer_id = p /\ m.subcategory_id = menu[i].subcategory_id}

KitchenFallback ==
  {p \in DOMAIN printers : ActiveOnline(p) /\ printers[p].type = "Kitchen"}

\* C12: a print request for an existing ticket selects only an active, online
\* printer; it selects one with a mapping for a subcategory of the ticket's
\* items whenever there is one, an active, online Kitchen printer when there
\* is none, and when there is neither it selects no printer, fails and leaves
\* the tickets unchanged.
C12_PrinterSelection ==
  [][PrintAnswered /\ TicketExists(last'.id) =>
       LET p == last'.printer
           mapped == SubcategoryMapped(last'.id)
       IN  /\ p # 0 => ActiveOnline(p)
           /\ mapped # {} => p \in mapped
           /\ mapped = {} /\ KitchenFallback # {} => p \in KitchenFallback
           /\ mapped = {} /\ KitchenFallback = {} =>
                p = 0 /\ last'.code = 500 /\ kots' = kots]_vars

\* the Bar printer is online and mapped but deactivated, a Kitchen printer is
\* selected instead
C12_Witness ==
  /\ last.op = "print" /\ last.printer \in {1, 2} /\ last.code = 200
  /\ TicketItems(1) = {1}
  /\ printers[3].is_online /\ ~printers[3].is_active

\* active, online printers with a mapping row for a category of the ticket's
\* items and no subcategory
CategoryMapped(kotId) ==
  {p \in DOMAIN printers :
     /\ ActiveOnline(p)
     /\ \E m \in mappings, i \in TicketItems(kotId) :
          /\ m.printer_id = p
          /\ m.subcategory_id = 0
          /\ m.category_id = SubcategoryCategory(menu[i].subcategory_id)}

\* C13 (as claimed): a print request for a ticket with an item of a category
\* that an active, online printer is mapped to without a subcategory selects
\* a mapped printer, not the Kitchen fallback.
C13_CategoryLevelMapping ==
  [][PrintAnswered /\ TicketExists(last'.id)
       /\ CategoryMapped(last'.id) # {} =>
         last'.printer \in
           CategoryMapped(last'.id) \cup SubcategoryMapped(last'.id)]_vars

\* C14 (as claimed): two print requests for the same ticket that read the
\* same printers table (the mappings and a ticket's lines never change once
\* written) and both select a printer select the same printer.
C14_DeterministicSelection ==
  [][/\ last.op = "print" /\ last.printer # 0
     /\ last'.op = "print" /\ last'.printer # 0
     /\ last'.id = last.id
     /\ last'.seen = last.seen
     /\ UNCHANGED <<mappings, menu, kot_items>>
     => last'.printer = last.printer]_vars

AutoPrintAnswered(r) == req[r].pc = "print" /\ req'[r].pc # "print"

MarkedPrinted(ks, kotId) ==
  \E k \in Committed(ks) :
    k.id = kotId /\ k.status = "Printed" /\ k.printed_at # 0

\* C15: a print that succeeds, on request or after the creation of an order,
\* leaves the ticket Printed with a printed timestamp; a print that does not
\* succeed (no ticket, no printer, printer not connected) leaves the tickets
\* table exactly as it was.
C15_PrintOutcome ==
  [][/\ PrintAnswered =>
          IF last'.code = 200 THEN MarkedPrinted(kots', last'.id)
          ELSE kots' = kots
     /\ \A r \in Requests :
          AutoPrintAnswered(r) =>
            IF req'[r].printed = "ok" THEN MarkedPrinted(kots', req[r].kotId)
            ELSE kots' = kots]_vars

\* the print after the creation failed and a later print request succeeded
C15_Witness ==
  /\ req[1].printed = "failed"
  /\ last.op = "print" /\ last.code = 200 /\ last.id = req[1].kotId
  /\ MarkedPrinted(kots, last.id)

\* C16 (as claimed): when a print request selected a printer and the dispatch
\* to it failed, that printer is offline afterwards and the tickets are
\* unchanged.
C16_FailureMarksOffline ==
  [][PrintAnswered /\ last'.printer # 0 /\ last'.code = 500 =>
       /\ ~printers'[last'.printer].is_online
       /\ kots' = kots]_vars

\* the system_settings row kot_auto_print exists and holds 'true'
SettingOn == "true" \in settings.kot_auto_print

\* the ticket is as the creation wrote it
Untouched(ks, kotId) ==
  \E k \in ks : k.id = kotId /\ k.status = "Pending" /\ k.printed_at = 0

\* C17: with kot_auto_print disabled or absent no creation dispatches a print,
\* and a ticket leaves Pending with a null printed timestamp only by a print
\* request for it that succeeds; with it enabled every order created was
\* followed by one print attempt for its ticket, made after the commit.
C17_AutoPrintToggle ==
  [][/\ \A r \in Requests :
          /\ ~SettingOn => req'[r].printed = "none" /\ req'[r].pc # "print"
          /\ req'[r].printed # req[r].printed =>
               /\ SettingOn
               /\ req[r].printed = "none" /\ req[r].committed
               /\ \E k \in Committed(kots) : k.id = req[r].kotId
          /\ SettingOn /\ req'[r].pc = "done" /\ req'[r].code = 201 =>
               req'[r].printed \in {"ok", "failed"}
     /\ ~SettingOn =>
          \A k \in kots :
            Untouched(kots, k.id) /\ ~Untouched(kots', k.id) =>
              PrintAnswered /\ last'.id = k.id /\ last'.code = 200]_vars

\* auto-print is off, the order was created without a print and its ticket
\* was printed by a later print request
C17_Witness ==
  /\ ~SettingOn
  /\ req[1].pc = "done" /\ req[1].code = 201 /\ req[1].printed = "none"
  /\ last.op = "print" /\ last.code = 200 /\ last.id = req[1].kotId
  /\ MarkedPrinted(kots, req[1].kotId)

Ids(T) == {x.id : x \in T}

\* C18: a print request, first or repeated, adds and removes no order, order
\* line, ticket or ticket line, and answers 200 exactly when its own
\* selection found a printer and its own connectivity check succeeded,
\* whatever the earlier requests for the ticket answered.
C18_IdempotentReprint ==
  [][PrintAnswered \/ (last'.op = "print" /\ kots' # kots /\ req' = req) =>
       /\ orders' = orders /\ order_items' = order_items
       /\ kot_items' = kot_items
       /\ Ids(kots') = Ids(kots) /\ Cardinality(kots') = Cardinality(kots)
       /\ last'.code = 200 <=>
            TicketExists(last'.id) /\ last'.printer # 0 /\ last'.connected]_vars

\* a reprint of a ticket that an earlier request printed is answered 500
\* because this time the printer is not connected; there is still one ticket
C18_Witness ==
  /\ req[1].printed # "ok"
  /\ MarkedPrinted(kots, 1)
  /\ last.op = "print" /\ last.id = 1 /\ last.code = 500
  /\ last.printer # 0 /\ ~last.connected
  /\ Cardinality(kots) = 1 /\ Cardinality(kot_items) = 1

\* the position of a status in a chain of statuses (0: not in the chain)
Position(chain, status) ==
  IF \E i \in DOMAIN chain : chain[i] = status
  THEN CHOOSE i \in DOMAIN chain : chain[i] = status
  ELSE 0

TicketChain == <<"Pending", "Printed", "Preparing", "Ready", "Served">>

LineChain == <<"Pending", "Preparing", "Ready", "Served">>

\* no row of the table moves from a status of the chain to an earlier one in
\* this step
NeverBackward(T, chain) ==
  \A x \in T : \A y \in T' :
    y.id = x.id /\ Position(chain, y.status) # 0 =>
      Position(chain, y.status) >= Position(chain, x.status)

\* C19 (as claimed): no step takes a ticket from a status of the chain
\* Pending, Printed, Preparing, Ready, Served to an earlier one.
C19_TicketForwardOnly == [][NeverBackward(kots, TicketChain)]_vars

\* C20 (as claimed): no step takes a ticket line from a status of the chain
\* Pending, Preparing, Ready, Served to an earlier one.
C20_LineNeverBackward == [][NeverBackward(kot_items, LineChain)]_vars

\* C21 (as claimed): no step changes the status of an order that is
\* Cancelled.
C21_CancelledTerminal ==
  [][\A o \in Committed(orders) : \A n \in orders' :
       o.status = "Cancelled" /\ n.id = o.id => n.status = "Cancelled"]_vars

\* C22 (as claimed): whatever happens to the catalog, every committed ticket
\* line is still there after the step with the item name and quantity it
\* had, and so are its ticket and its order line.
C22_TicketLinesSurvive ==
  [][\A ki \in Committed(kot_items) :
       \E kj \in kot_items' :
         /\ kj.id = ki.id
         /\ kj.menu_item_name = ki.menu_item_name
         /\ kj.quantity = ki.quantity
         /\ \E k \in kots' : k.id = kj.kot_id
         /\ \E oi \in order_items' : oi.id = kj.order_item_id]_vars

SameAmounts(o, n) ==
  /\ n.subtotal = o.subtotal /\ n.tax_amount = o.tax_amount
  /\ n.discount_amount = o.discount_amount
  /\ n.total_amount = o.total_amount

SamePrices(o, n) == n.unit_price = o.unit_price /\ n.total_price = o.total_price

\* C23: no step (menu price change, rename, tax-rate change, status update of
\* the order, the ticket or a ticket line, print) changes the subtotal, tax,
\* discount or total of a committed order, or the unit price or total price
\* of a committed order line that is in the table after the step.
C23_FinancialsFrozen ==
  [][/\ \A o \in Committed(orders) :
          \E n \in orders' : n.id = o.id /\ SameAmounts(o, n)
     /\ \A o \in Committed(order_items) : \A n \in order_items' :
          n.id = o.id => SamePrices(o, n)]_vars

\* the order is Completed, its ticket printed, the tax rate is 10 and the
\* menu price of item 1 is 1.20, and line 1 still has the price 1.00
C23_Witness ==
  /\ \E o \in Committed(orders) : o.id = 1 /\ o.status = "Completed"
  /\ MarkedPrinted(kots, 1)
  /\ settings.tax_rate = {1000}
  /\ 1 \in DOMAIN menu /\ menu[1].price = 120
  /\ \E oi \in Committed(order_items) :
       oi.menu_item_id = 1 /\ oi.unit_price = 100

\* the category names of the menu items a request names
RequestedCategories(r) ==
  {CategoryName(SubcategoryCategory(menu[req[r].items[i].menu_item_id].subcategory_id)) :
     i \in DOMAIN req[r].items}

\* C24: every ticket is tagged Food when all the categories of its order's
\* items are Food, Beverages when all of them are Drinks or Beverages, and
\* Mixed otherwise; the tag depends on the set of categories only, not on
\* the order or the repetition of the items.
C24_CategoryTag ==
  \A k \in kots :
    LET cats == RequestedCategories(k.by) IN
    k.category_type =
      IF cats \subseteq {"Food"} THEN "Food"
      ELSE IF cats \subseteq {"Drinks", "Beverages"} THEN "Beverages"
      ELSE "Mixed"

\* a committed ticket tagged Mixed for an order Food, Drinks, Food
C24_Witness ==
  \E k \in Committed(kots) :
    /\ k.category_type = "Mixed"
    /\ Len(req[k.by].items) = 3
    /\ req[k.by].items[1].menu_item_id = 1
    /\ req[k.by].items[2].menu_item_id = 2
    /\ req[k.by].items[3].menu_item_id = 1

\* C25: no two printKOT calls ever hold the same ThermalPrinter object, and
\* what a call sent to its printer is exactly what that call formatted, in
\* every interleaving of the calls' statements.
C25_NoSharedConnection ==
  /\ \A j1, j2 \in Jobs :
       j1 # j2 /\ svc.jobs[j1].printer # 0 =>
         svc.jobs[j1].printer # svc.jobs[j2].printer
  /\ \A j \in Jobs :
       svc.jobs[j].pc \in {"mark", "done"} /\ svc.jobs[j].code # 500 =>
         svc.jobs[j].sent = svc.jobs[j].formatted

\* two calls for the same printer are both past their format step, one has
\* sent its content and the other is about to
C25_Witness ==
  /\ svc.jobs[1].pc = "mark" /\ svc.jobs[2].pc = "execute"
  /\ svc.jobs[1].printerId = svc.jobs[2].printerId
  /\ svc.jobs[1].sent = KotContent(1, 1)

\* C26 (as claimed): whenever no status request is in flight, a ticket that
\* is Ready has a completed timestamp and all of its lines are Ready.
C26_ReadyTicketAllLinesReady ==
  Quiet =>
    \A k \in Committed(kots) :
      k.status = "Ready" =>
        /\ k.completed_at # 0
        /\ \A ki \in TicketLinesOf(k) : ki.status = "Ready"

ReadyAndCompleted(k) == k.status = "Ready" /\ k.completed_at # 0

\* C27: when the concurrent requests that set lines to Ready have all
\* finished and every line of a ticket is Ready, the ticket is Ready with a
\* completed timestamp, whatever the interleaving of their statements was.
C27_ConcurrentCascade ==
  Quiet =>
    \A k \in Committed(kots) :
      TicketLinesOf(k) # {} /\ AllLinesReady(kot_items, k.id) =>
        ReadyAndCompleted(k)

\* both requests saw no line left: one has already made the ticket Ready
\* and answered, the other is about to run its cascade
C27_Witness ==
  /\ upd[1].pc = "idle" /\ upd[2].pc = "cascade"
  /\ \E k \in Committed(kots) :
       /\ k.id = 1 /\ ReadyAndCompleted(k)
       /\ Cardinality(TicketLinesOf(k)) = 2
       /\ AllLinesReady(kot_items, 1)

\* the line named by the request in flight is a line of the ticket it names
LineBelongs(u) ==
  \E ki \in kot_items : ki.id = upd[u].itemId /\ ki.kot_id = upd[u].kotId

\* C28 (as claimed): no statement of a ticket-line status request for a
\* ticket that existed when the request arrived, whose line is not a line of
\* that ticket, changes a ticket-line row or a ticket row.
C28_StrayLineChangesNothing ==
  [][\A u \in Updaters :
       /\ upd[u].op = "line" /\ upd'[u] # upd[u]
       /\ upd[u].was # NoTicket /\ ~LineBelongs(u)
       => kot_items' = kot_items /\ kots' = kots]_vars

\* C29 (as claimed): the total_amount of the 201 response is the number the
\* total_amount column of the created order holds.
C29_ResponseTotalIsPersisted ==
  \A r \in Requests :
    req[r].pc = "done" /\ req[r].code = 201 =>
      \A o \in Committed(orders) :
        o.id = req[r].orderId => req[r].reply = ToNumber(o.total_amount)

\* C30 (as claimed): every create-order handler that has ended sent one
\* response and released its connection once.
C30_OneResponseOneRelease ==
  \A r \in Requests :
    req[r].pc = "done" => req[r].responses = 1 /\ req[r].releases = 1

====
